---------------------------- MODULE Spec2Model ----------------------------
(***************************************************************************)
(* Model of common/storage/image.py: the ImageStore session (buffered TSV  *)
(* writer with an S3 upload at commit).                                    *)
(*                                                                         *)
(* Text is modelled as a sequence of tokens; a token stands for one piece  *)
(* of text ("\t" and "\n" are the tab and the line terminator).  Python    *)
(* values are records [type, val]; the prepared string None is the         *)
(* one-token sequence NoneStr, which no text contains.                     *)
(***************************************************************************)
EXTENDS Integers, Sequences, FiniteSets, TLC

(***************************************************************************)
(* Bounds of the model.                                                    *)
(***************************************************************************)
MaxImages == 3      \* accepted records per session
MaxThreshold == 2   \* largest configured buffer_length
MaxCommits == 2     \* commit() calls per session
MaxRecordImages == 1  \* accepted records per session of SpecRecords
MaxIOFailures == 1    \* flushes that raise per session of SpecIOFail
MaxIOImages == 2      \* accepted records per session of SpecIOFail

(***************************************************************************)
(* Python values.                                                          *)
(***************************************************************************)
PyNone == [type |-> "NoneType", val |-> <<>>]
PyStr(s) == [type |-> "str", val |-> s]
PyInt(n) == [type |-> "int", val |-> n]
PyDict(pairs) == [type |-> "dict", val |-> pairs]   \* <<key, value>> pairs
PyList(elems) == [type |-> "list", val |-> elems]

IsNone(v) == v.type = "NoneType"

NoneStr == <<"<None>">>          \* prepare_string returning None
TAB == "\t"
NL == "\n"
NullMarker == "\\N"

(***************************************************************************)
(* _IMAGE_TSV_COLUMNS: the order of the list is the order of the TSV.      *)
(***************************************************************************)
Col(kind, name, required, size, truncate) ==
    [kind |-> kind, NAME |-> name, REQUIRED |-> required,
     SIZE |-> size, TRUNCATE |-> truncate]

\* Variant: image_url declared with required=False.
Columns_ImageUrlOptional ==
    << Col("String",  "foreign_identifier",  FALSE, 3000, FALSE),
       Col("URL",     "foreign_landing_url", TRUE,  1000, FALSE),
       Col("URL",     "image_url",           FALSE, 3000, FALSE),
       Col("URL",     "thumbnail_url",       FALSE, 3000, FALSE),
       Col("Integer", "width",               FALSE, 0,    FALSE),
       Col("Integer", "height",              FALSE, 0,    FALSE),
       Col("Integer", "filesize",            FALSE, 0,    FALSE),
       Col("String",  "license_",            TRUE,  50,   FALSE),
       Col("String",  "license_version",     TRUE,  25,   FALSE),
       Col("String",  "creator",             FALSE, 2000, TRUE),
       Col("URL",     "creator_url",         FALSE, 2000, FALSE),
       Col("String",  "title",               FALSE, 5000, TRUE),
       Col("JSON",    "meta_data",           FALSE, 0,    FALSE),
       Col("JSON",    "tags",                FALSE, 0,    FALSE),
       Col("Boolean", "watermarked",         FALSE, 0,    FALSE),
       Col("String",  "provider",            FALSE, 80,   FALSE),
       Col("String",  "source",              FALSE, 80,   FALSE) >>

_IMAGE_TSV_COLUMNS ==
    << Col("String",  "foreign_identifier",  FALSE, 3000, FALSE),
       Col("URL",     "foreign_landing_url", TRUE,  1000, FALSE),
       Col("URL",     "image_url",           TRUE,  3000, FALSE),
       Col("URL",     "thumbnail_url",       FALSE, 3000, FALSE),
       Col("Integer", "width",               FALSE, 0,    FALSE),
       Col("Integer", "height",              FALSE, 0,    FALSE),
       Col("Integer", "filesize",            FALSE, 0,    FALSE),
       Col("String",  "license_",            TRUE,  50,   FALSE),
       Col("String",  "license_version",     TRUE,  25,   FALSE),
       Col("String",  "creator",             FALSE, 2000, TRUE),
       Col("URL",     "creator_url",         FALSE, 2000, FALSE),
       Col("String",  "title",               FALSE, 5000, TRUE),
       Col("JSON",    "meta_data",           FALSE, 0,    FALSE),
       Col("JSON",    "tags",                FALSE, 0,    FALSE),
       Col("Boolean", "watermarked",         FALSE, 0,    FALSE),
       Col("String",  "provider",            FALSE, 80,   FALSE),
       Col("String",  "source",              FALSE, 80,   FALSE) >>

ColumnNames == [i \in 1..Len(_IMAGE_TSV_COLUMNS) |-> _IMAGE_TSV_COLUMNS[i].NAME]

\* Index of a column name in the schema (the namedtuple's field position).
ColIndex(name) == CHOOSE i \in 1..Len(ColumnNames) : ColumnNames[i] = name

(***************************************************************************)
(* common.storage.columns: Column.prepare_string, one per column type.     *)
(* The module is not part of the sources at hand; it follows the           *)
(* specification's "Column Type System" (validate_and_serialize).          *)
(***************************************************************************)
Whitespace == {TAB, NL, "\r"}

\* String: delimiter and line-terminator characters never reach the row.
SanitizeString(s) == [i \in 1..Len(s) |-> IF s[i] \in Whitespace THEN " " ELSE s[i]]

\* String: null if absent; over the maximum, truncate or reject by policy.
PrepareStringColumn(col, value) ==
    IF value.type # "str" THEN NoneStr
    ELSE IF Len(value.val) > col.SIZE
         THEN IF col.TRUNCATE
              THEN SanitizeString(SubSeq(value.val, 1, col.SIZE))
              ELSE NoneStr
         ELSE SanitizeString(value.val)

\* URL: a structurally well-formed absolute URL is a scheme token followed
\* by a non-empty rest holding no whitespace.
Schemes == {"http://", "https://"}

WellFormedURL(s) ==
    /\ Len(s) >= 2
    /\ s[1] \in Schemes
    /\ \A i \in 2..Len(s) : s[i] \notin Whitespace \cup {" "} \cup Schemes

PrepareURLColumn(col, value) ==
    IF value.type # "str" THEN NoneStr
    ELSE IF WellFormedURL(value.val) /\ Len(value.val) <= col.SIZE
         THEN value.val
         ELSE NoneStr

\* Integer: numeric-looking input to the canonical integer string.
DigitTokens == {"0", "1", "2", "3", "4", "5", "6", "7", "8", "9"}

PrepareIntegerColumn(col, value) ==
    IF value.type = "int" THEN <<ToString(value.val)>>
    ELSE IF value.type = "str" /\ Len(value.val) > 0
            /\ \A i \in 1..Len(value.val) : value.val[i] \in DigitTokens
         THEN value.val
         ELSE NoneStr

\* Boolean: true/false, 1/0, t/f to a one-character code.
PrepareBooleanColumn(col, value) ==
    IF value.type = "bool" THEN (IF value.val THEN <<"t">> ELSE <<"f">>)
    ELSE IF value.type = "int" /\ value.val \in {0, 1}
         THEN (IF value.val = 1 THEN <<"t">> ELSE <<"f">>)
    ELSE IF value.type = "str" /\ value.val \in {<<"t">>, <<"true">>, <<"1">>}
         THEN <<"t">>
    ELSE IF value.type = "str" /\ value.val \in {<<"f">>, <<"false">>, <<"0">>}
         THEN <<"f">>
    ELSE NoneStr

\* Structured: compact textual encoding of a mapping or a sequence.
RECURSIVE JsonTokens(_)
RECURSIVE JsonItems(_, _)
JsonItems(elems, isDict) ==
    IF Len(elems) = 0 THEN <<>>
    ELSE LET e == Head(elems)
             one == IF isDict
                    THEN <<"\"">> \o SanitizeString(e[1]) \o <<"\"", ":">>
                         \o JsonTokens(e[2])
                    ELSE JsonTokens(e)
         IN one \o (IF Len(elems) > 1 THEN <<",">> ELSE <<>>)
                \o JsonItems(Tail(elems), isDict)

JsonTokens(v) ==
    IF v.type = "dict" THEN <<"{">> \o JsonItems(v.val, TRUE) \o <<"}">>
    ELSE IF v.type = "list" THEN <<"[">> \o JsonItems(v.val, FALSE) \o <<"]">>
    ELSE IF v.type = "str" THEN <<"\"">> \o SanitizeString(v.val) \o <<"\"">>
    ELSE IF v.type = "int" THEN <<ToString(v.val)>>
    ELSE IF v.type = "bool" THEN (IF v.val THEN <<"true">> ELSE <<"false">>)
    ELSE <<"null">>

PrepareJSONColumn(col, value) ==
    IF value.type \in {"dict", "list"} THEN JsonTokens(value) ELSE NoneStr

prepare_string(col, value) ==
    CASE col.kind = "String"  -> PrepareStringColumn(col, value)
      [] col.kind = "URL"     -> PrepareURLColumn(col, value)
      [] col.kind = "Integer" -> PrepareIntegerColumn(col, value)
      [] col.kind = "Boolean" -> PrepareBooleanColumn(col, value)
      [] col.kind = "JSON"    -> PrepareJSONColumn(col, value)

(***************************************************************************)
(* common.storage.util (not part of the sources at hand): license          *)
(* resolution, source defaulting and the all-arguments-exist test, after   *)
(* the specification's "Record Normalizer" and "Remote Publisher".         *)
(***************************************************************************)
KnownLicenseURL == <<"https://", "creativecommons.org/licenses/by/4.0/">>
LicenseBy == <<<<"by">>, <<"4.0">>>>
LicenseCC0 == <<<<"cc0">>, <<"1.0">>>>
ValidLicensePairs == {LicenseBy, LicenseCC0}

\* Result: <<license_, license_version>> as Python values.
choose_license_and_version(license_url, license_, license_version) ==
    IF license_url.type = "str" /\ license_url.val = KnownLicenseURL
    THEN <<PyStr(LicenseBy[1]), PyStr(LicenseBy[2])>>
    ELSE IF /\ license_.type = "str" /\ license_version.type = "str"
            /\ <<license_.val, license_version.val>> \in ValidLicensePairs
         THEN <<license_, license_version>>
         ELSE <<PyNone, PyNone>>

get_source(source, provider) == IF IsNone(source) THEN provider ELSE source

check_all_arguments_exist(s3_bucket, access_key, secret_key) ==
    ~IsNone(s3_bucket) /\ ~IsNone(access_key) /\ ~IsNone(secret_key)

(***************************************************************************)
(* Python dict helpers (insertion-ordered <<key, value>> pairs).           *)
(***************************************************************************)
DictHas(d, key) == \E i \in 1..Len(d.val) : d.val[i][1] = key

DictGet(d, key) ==
    IF DictHas(d, key)
    THEN d.val[CHOOSE i \in 1..Len(d.val) : d.val[i][1] = key][2]
    ELSE PyNone

\* dict.update(key=value): replace in place, or insert at the end.
DictUpdate(d, key, value) ==
    IF DictHas(d, key)
    THEN PyDict([i \in 1..Len(d.val) |->
                   IF d.val[i][1] = key THEN <<key, value>> ELSE d.val[i]])
    ELSE PyDict(Append(d.val, <<key, value>>))

\* Python truthiness of the values the model holds.
Truthy(v) ==
    CASE v.type = "NoneType" -> FALSE
      [] v.type = "bool" -> v.val
      [] v.type = "int" -> v.val # 0
      [] OTHER -> Len(v.val) > 0

(***************************************************************************)
(* ImageStore: record normalisation.                                       *)
(***************************************************************************)
LICENSE_URL_KEY == <<"license_url">>

\* Variant: a license_url already in the dict is kept (setdefault).
_enrich_meta_data_KeepsPrior(meta_data, license_url) ==
    IF meta_data.type # "dict"
    THEN PyDict(<< <<LICENSE_URL_KEY, license_url>> >>)
    ELSE IF DictHas(meta_data, LICENSE_URL_KEY) THEN meta_data
    ELSE DictUpdate(meta_data, LICENSE_URL_KEY, license_url)

_enrich_meta_data(meta_data, license_url) ==
    IF meta_data.type # "dict"
    THEN PyDict(<< <<LICENSE_URL_KEY, license_url>> >>)
    ELSE DictUpdate(meta_data, LICENSE_URL_KEY, license_url)

\* The dict the caller passed as meta_data, as the call leaves it:
\* `enriched_meta_data = meta_data` names the caller's dict itself, which
\* update() then changes in place.
MetaDataArgAfter(meta_data, license_url) ==
    IF meta_data.type # "dict"
    THEN meta_data
    ELSE _enrich_meta_data(meta_data, license_url)

\* Variant: every tag wrapped, those shaped {name, provider} included.
_format_raw_tag_AlwaysWraps(tag, provider) ==
    PyDict(<< <<(<<"name">>), tag>>, <<(<<"provider">>), provider>> >>)

_format_raw_tag(tag, provider) ==
    IF /\ tag.type = "dict"
       /\ Truthy(DictGet(tag, <<"name">>))
       /\ Truthy(DictGet(tag, <<"provider">>))
    THEN tag
    ELSE PyDict(<< <<(<<"name">>), tag>>, <<(<<"provider">>), provider>> >>)

_enrich_tags(raw_tags, provider) ==
    IF raw_tags.type # "list"
    THEN PyNone
    ELSE PyList([i \in 1..Len(raw_tags.val) |->
                   _format_raw_tag(raw_tags.val[i], provider)])

\* Variant: the record built by position from values listed with height
\* ahead of width, so that it no longer lines up with the column list.
_Image_HeightBeforeWidth(kw) ==
    << kw.foreign_identifier, kw.foreign_landing_url, kw.image_url,
       kw.thumbnail_url, kw.height, kw.width, kw.filesize, kw.license_,
       kw.license_version, kw.creator, kw.creator_url, kw.title, kw.meta_data,
       kw.tags, kw.watermarked, kw.provider, kw.source >>

\* namedtuple('_Image', [c.NAME for c in _IMAGE_TSV_COLUMNS]) built by
\* keyword: position i holds the value given for the i-th column's name.
_Image(kw) == [i \in 1..Len(ColumnNames) |-> kw[ColumnNames[i]]]

_get_image(a, provider) ==
    LET lic == choose_license_and_version(a.license_url, a.license_,
                                          a.license_version)
        source == get_source(a.source, provider)
        meta_data == _enrich_meta_data(a.meta_data, a.license_url)
        tags == _enrich_tags(a.raw_tags, provider)
    IN _Image([foreign_identifier  |-> a.foreign_identifier,
               foreign_landing_url |-> a.foreign_landing_url,
               image_url           |-> a.image_url,
               thumbnail_url       |-> a.thumbnail_url,
               license_            |-> lic[1],
               license_version     |-> lic[2],
               width               |-> a.width,
               height              |-> a.height,
               filesize            |-> PyNone,
               creator             |-> a.creator,
               creator_url         |-> a.creator_url,
               title               |-> a.title,
               meta_data           |-> meta_data,
               tags                |-> tags,
               watermarked         |-> a.watermarked,
               provider            |-> provider,
               source              |-> source])

(***************************************************************************)
(* ImageStore._create_tsv_row                                              *)
(***************************************************************************)
RECURSIVE Join(_, _)
Join(sep, strs) ==
    IF Len(strs) = 0 THEN <<>>
    ELSE IF Len(strs) = 1 THEN strs[1]
    ELSE strs[1] \o <<sep>> \o Join(sep, Tail(strs))

PreparedStrings(image, columns) ==
    [i \in 1..Len(columns) |-> prepare_string(columns[i], image[i])]

\* The loop's early return: some required column's prepared string is None.
MissingRequired(prepared, columns) ==
    \E i \in 1..Len(columns) : columns[i].REQUIRED /\ prepared[i] = NoneStr

\* Variant: the loop tests every column, not only the required ones.
_create_tsv_row_AllColumnsRequired(image, columns) ==
    LET prepared_strings == PreparedStrings(image, columns)
    IN IF \E i \in 1..Len(columns) : prepared_strings[i] = NoneStr
       THEN NoneStr
       ELSE Join(TAB, prepared_strings) \o <<NL>>

\* Variant: a null column is written as the empty string.
_create_tsv_row_EmptyForNull(image, columns) ==
    LET prepared_strings == PreparedStrings(image, columns)
    IN IF MissingRequired(prepared_strings, columns)
       THEN NoneStr
       ELSE Join(TAB, [i \in 1..Len(columns) |->
                         IF prepared_strings[i] # NoneStr
                         THEN prepared_strings[i]
                         ELSE <<>>]) \o <<NL>>

\* The row as text, or NoneStr for Python's None.
_create_tsv_row(image, columns) ==
    LET prepared_strings == PreparedStrings(image, columns)
    IN IF MissingRequired(prepared_strings, columns)
       THEN NoneStr
       ELSE Join(TAB, [i \in 1..Len(columns) |->
                         IF prepared_strings[i] # NoneStr
                         THEN prepared_strings[i]
                         ELSE <<NullMarker>>]) \o <<NL>>

(***************************************************************************)
(* Session state.                                                          *)
(***************************************************************************)
VARIABLES
    session,         \* "new" before __init__, "ready" after it, "raised" if it raised
    _image_buffer,   \* self._image_buffer: list of rows
    _total_images,   \* self._total_images
    _PROVIDER,       \* self._PROVIDER
    _BUFFER_LENGTH,  \* self._BUFFER_LENGTH
    _S3_OBJECT,      \* self._S3_OBJECT
    output_file,     \* the file system at self._OUTPUT_PATH
    s3_uploads,      \* the upload_file calls made on the S3 object, in order
    last_call,       \* the last public call: its name, arguments and return value
    initial_file,    \* history: the file at self._OUTPUT_PATH when the session was made
    accepted_rows,   \* history: the rows add_item appended to the buffer, in order
    io_failures      \* history: the number of flushes that raised

vars == <<session, _image_buffer, _total_images, _PROVIDER, _BUFFER_LENGTH,
          _S3_OBJECT, output_file, s3_uploads, last_call, initial_file,
          accepted_rows,
         io_failures>>

(***************************************************************************)
(* The file at _OUTPUT_PATH: absent, or its text.                          *)
(***************************************************************************)
NoFile == [exists |-> FALSE, data |-> <<>>]
FileOf(text) == [exists |-> TRUE, data |-> text]

RECURSIVE Concat(_)
Concat(strs) == IF Len(strs) = 0 THEN <<>> ELSE Head(strs) \o Concat(Tail(strs))

\* Variant: the file opened with mode 'w'.
AppendLines_Truncating(f, lines) == FileOf(Concat(lines))

\* Variant: the lines written last to first.
AppendLines_Reversed(f, lines) ==
    FileOf(f.data \o Concat([i \in 1..Len(lines) |-> lines[Len(lines) + 1 - i]]))

\* open(path, 'a') then f.writelines(lines): creates the file if absent.
AppendLines(f, lines) == FileOf(f.data \o Concat(lines))

\* os.path.exists(self._OUTPUT_PATH)
PathExists(f) == f.exists

\* Variant: the buffer is not reset after the write.
_flush_buffer_KeepsBuffer(buffer, f) ==
    LET buffer_length == Len(buffer)
    IN IF buffer_length > 0
       THEN [buffer |-> buffer, file |-> AppendLines(f, buffer), ret |-> buffer_length]
       ELSE [buffer |-> buffer, file |-> f, ret |-> buffer_length]

\* Variant: the file is opened before the length is tested.
_flush_buffer_AlwaysOpens(buffer, f) ==
    [buffer |-> <<>>, file |-> AppendLines(f, buffer), ret |-> Len(buffer)]

\* Result: the buffer and the file afterwards, and the returned length.
_flush_buffer(buffer, f) ==
    LET buffer_length == Len(buffer)
    IN IF buffer_length > 0
       THEN [buffer |-> <<>>, file |-> AppendLines(f, buffer), ret |-> buffer_length]
       ELSE [buffer |-> buffer, file |-> f, ret |-> buffer_length]

\* The statements of the flush that can raise an OSError: open(path, 'a'),
\* f.writelines(buffer), and the close of the file when the with block is
\* left, which writes out what the file object still holds.
FlushStages == {"open", "writelines", "close"}

\* What a write that raised can have put in the file: some of the lines,
\* the next one possibly torn.
PartialWrites(lines) ==
    {Concat(SubSeq(lines, 1, k)) \o SubSeq(lines[k + 1], 1, t) :
        k \in 0..(Len(lines) - 1), t \in {0, 1}}

\* Variant: the buffer reset after the with block, once the file is closed.
_flush_buffer_raising_ResetAfterClose(buffer, f, stage) ==
    IF Len(buffer) = 0 THEN {}
    ELSE IF stage = "open" THEN {[buffer |-> buffer, file |-> f]}
    ELSE IF stage = "writelines"
    THEN {[buffer |-> buffer, file |-> FileOf(f.data \o written)] :
             written \in PartialWrites(buffer)}
    ELSE {[buffer |-> buffer, file |-> FileOf(f.data \o written)] :
             written \in PartialWrites(buffer) \cup {Concat(buffer)}}

\* _flush_buffer when the named statement raises: the possible buffers and
\* files afterwards (none when the buffer is empty: nothing is opened).
\* `self._image_buffer = []` stands inside the with block, after writelines
\* and before the file is closed.
_flush_buffer_raising(buffer, f, stage) ==
    IF Len(buffer) = 0 THEN {}
    ELSE IF stage = "open" THEN {[buffer |-> buffer, file |-> f]}
    ELSE IF stage = "writelines"
    THEN {[buffer |-> buffer, file |-> FileOf(f.data \o written)] :
             written \in PartialWrites(buffer)}
    ELSE {[buffer |-> <<>>, file |-> FileOf(f.data \o written)] :
             written \in PartialWrites(buffer) \cup {Concat(buffer)}}

\* Variant: upload_file called a second time for its response.
_upload_output_to_s3_Twice(s3_object, f, buffer, uploads) ==
    IF IsNone(s3_object) \/ ~PathExists(f) THEN uploads
    ELSE LET call == [object |-> s3_object, body |-> f.data, buffered |-> Len(buffer)]
         IN uploads \o <<call, call>>

\* Variant: the upload made whether or not the output file exists.
_upload_output_to_s3_IgnoresFile(s3_object, f, buffer, uploads) ==
    IF IsNone(s3_object) THEN uploads
    ELSE Append(uploads, [object |-> s3_object, body |-> f.data,
                          buffered |-> Len(buffer)])

\* Result: the upload_file calls afterwards.  Each entry is the object, the
\* uploaded text and the number of rows in the buffer when the call was made.
_upload_output_to_s3(s3_object, f, buffer, uploads) ==
    IF IsNone(s3_object) THEN uploads
    ELSE IF ~PathExists(f) THEN uploads
    ELSE Append(uploads, [object |-> s3_object, body |-> f.data,
                          buffered |-> Len(buffer)])

(***************************************************************************)
(* ImageStore._initialize_s3_object                                        *)
(***************************************************************************)
S3Object(bucket, key, access_key, secret_key) ==
    [type |-> "s3.Object",
     val |-> [bucket_name |-> bucket, key |-> key,
              aws_access_key_id |-> access_key,
              aws_secret_access_key |-> secret_key]]

\* Result: the object (or None), and whether the method raised.
_initialize_s3_object(s3_bucket, access_key, secret_key, env, provider) ==
    LET bucket == IF IsNone(s3_bucket) THEN env.CCCATALOG_STORAGE_BUCKET
                  ELSE s3_bucket
        access == IF IsNone(access_key) THEN env.AWS_ACCESS_KEY ELSE access_key
        secret == IF IsNone(access_key) THEN env.AWS_SECRET_KEY ELSE secret_key
        requirements_met == check_all_arguments_exist(bucket, access, secret)
        output_key == <<"image", "/">>
                      \o (IF IsNone(provider) THEN <<"None">> ELSE provider.val)
                      \o <<"/", "<date>", "/", "<uuid4>", ".tsv">>
        s3_object == IF requirements_met
                     THEN S3Object(bucket, output_key, access, secret)
                     ELSE PyNone
    IN \* logger.info(f'... {s3_object.bucket_name}') on None: AttributeError
       [object |-> s3_object, raised |-> IsNone(s3_object)]

(***************************************************************************)
(* The inputs the model draws from.                                        *)
(***************************************************************************)
Thresholds == -1..MaxThreshold          \* buffer_length: any integer is accepted

Providers == <<PyStr(<<"flickr">>), PyNone>>   \* provider=None is the default

\* The file found at the output path when the session is made.
InitialFiles == {NoFile, FileOf(<<"row of an earlier run", NL>>)}

BucketArgs == {PyNone, PyStr(<<"arg-bucket">>)}
AccessArgs == {PyNone, PyStr(<<"arg-access">>)}
SecretArgs == {PyNone, PyStr(<<"arg-secret">>)}
Environments ==
    [CCCATALOG_STORAGE_BUCKET : {PyNone, PyStr(<<"env-bucket">>)},
     AWS_ACCESS_KEY : {PyNone, PyStr(<<"env-access">>)},
     AWS_SECRET_KEY : {PyNone, PyStr(<<"env-secret">>)}]

EnvUnset == [CCCATALOG_STORAGE_BUCKET |-> PyNone, AWS_ACCESS_KEY |-> PyNone,
             AWS_SECRET_KEY |-> PyNone]
EnvSet == [CCCATALOG_STORAGE_BUCKET |-> PyStr(<<"env-bucket">>),
           AWS_ACCESS_KEY |-> PyStr(<<"env-access">>),
           AWS_SECRET_KEY |-> PyStr(<<"env-secret">>)]

\* add_item's keyword defaults.
DefaultArgs ==
    [foreign_landing_url |-> PyNone, image_url |-> PyNone,
     thumbnail_url |-> PyNone, license_url |-> PyNone, license_ |-> PyNone,
     license_version |-> PyNone, foreign_identifier |-> PyNone,
     width |-> PyNone, height |-> PyNone, creator |-> PyNone,
     creator_url |-> PyNone, title |-> PyNone, meta_data |-> PyNone,
     raw_tags |-> PyNone, watermarked |-> PyStr(<<"f">>), source |-> PyNone]

LandingURL == PyStr(<<"https://", "example.com/page">>)
ImageURL == PyStr(<<"https://", "example.com/image.jpg">>)

\* Required fields only, the license given by URL.
RequiredOnly ==
    [DefaultArgs EXCEPT !.foreign_landing_url = LandingURL,
                        !.image_url = ImageURL,
                        !.license_url = PyStr(KnownLicenseURL)]

\* Every field given, the license as a pair; some optional values unusable.
AllFields ==
    [DefaultArgs EXCEPT
        !.foreign_landing_url = LandingURL,
        !.image_url = ImageURL,
        !.license_ = PyStr(LicenseCC0[1]),
        !.license_version = PyStr(LicenseCC0[2]),
        !.thumbnail_url = PyStr(<<"not a url">>),
        !.foreign_identifier = PyStr(<<"id-1">>),
        !.width = PyInt(640),
        !.height = PyStr(<<"tall">>),
        !.creator = PyStr(<<"A", TAB, "B">>),
        !.creator_url = PyStr(<<"https://", "example.com/creator">>),
        !.title = PyStr(<<"line", NL, "break">>),
        !.meta_data = PyDict(<< <<(<<"description">>), PyStr(<<"d">>)>> >>),
        !.raw_tags = PyList(<< PyStr(<<"cat">>),
                               PyDict(<< <<(<<"name">>), PyStr(<<"dog">>)>>,
                                         <<(<<"provider">>), PyStr(<<"other">>)>> >>) >>),
        !.watermarked = PyStr(<<"t">>),
        !.source = PyStr(<<"aggregator">>)]

Items ==
    << RequiredOnly,
       AllFields,
       [RequiredOnly EXCEPT !.image_url = PyNone],
       [AllFields EXCEPT !.image_url = PyStr(<<>>)],
       [AllFields EXCEPT !.image_url = PyStr(<<"example.com/image.jpg">>)],
       [RequiredOnly EXCEPT !.foreign_landing_url = PyNone],
       [RequiredOnly EXCEPT !.license_url = PyNone],
       [AllFields EXCEPT !.license_version = PyNone],
       [AllFields EXCEPT !.license_ = PyStr(<<"no-such-license">>)] >>

\* Tags of every shape _format_raw_tag tells apart.
TagDog == PyDict(<< <<(<<"name">>), PyStr(<<"dog">>)>>,
                    <<(<<"provider">>), PyStr(<<"other">>)>> >>)
TagNameOnly == PyDict(<< <<(<<"name">>), PyStr(<<"bird">>)>> >>)
TagEmptyName == PyDict(<< <<(<<"name">>), PyStr(<<>>)>>,
                          <<(<<"provider">>), PyStr(<<"other">>)>> >>)
TagNoneProvider == PyDict(<< <<(<<"name">>), PyStr(<<"fish">>)>>,
                             <<(<<"provider">>), PyNone>> >>)
MixedTags == PyList(<< PyStr(<<"cat">>), TagDog, TagNameOnly, TagEmptyName,
                       TagNoneProvider, PyNone, PyStr(<<"cat">>) >>)

OldLicenseURL == PyStr(<<"https://", "example.com/old-license">>)
MetaWithLicense ==
    PyDict(<< <<(<<"description">>), PyStr(<<"d">>)>>,
              <<LICENSE_URL_KEY, OldLicenseURL>>,
              <<(<<"pub_date">>), PyInt(2019)>> >>)

\* Required fields only, the license given as a pair.
RequiredOnlyPair ==
    [DefaultArgs EXCEPT !.foreign_landing_url = LandingURL,
                        !.image_url = ImageURL,
                        !.license_ = PyStr(LicenseBy[1]),
                        !.license_version = PyStr(LicenseBy[2])]

\* Records for the normalisation of tags and meta_data.
MoreItems ==
    << RequiredOnlyPair,
       [RequiredOnly EXCEPT !.raw_tags = PyStr(<<"cat">>)],
       [RequiredOnly EXCEPT !.raw_tags = TagDog],
       [RequiredOnly EXCEPT !.raw_tags = PyList(<<>>)],
       [RequiredOnly EXCEPT !.raw_tags = MixedTags],
       [RequiredOnly EXCEPT !.meta_data = PyStr(<<"not a map">>)],
       [RequiredOnly EXCEPT !.meta_data = MetaWithLicense],
       [RequiredOnlyPair EXCEPT !.meta_data = MetaWithLicense],
       [RequiredOnly EXCEPT !.meta_data = PyDict(<<>>)],
       [RequiredOnly EXCEPT !.image_url = PyNone, !.meta_data = MetaWithLicense] >>

AllItems == Items \o MoreItems

\* The first records of Items: two that are accepted, one that is rejected.
IOItems == SubSeq(Items, 1, 3)

(***************************************************************************)
(* The public operations, as functions of the session's state.             *)
(***************************************************************************)
\* Variant: the count raised outside the `if tsv_row` block.
add_item_CountsEveryCall(a, buffer, total, f, provider, threshold) ==
    LET image == _get_image(a, provider)
        tsv_row == _create_tsv_row(image, _IMAGE_TSV_COLUMNS)
        accepted == tsv_row # NoneStr /\ Len(tsv_row) > 0
        buffer1 == IF accepted THEN Append(buffer, tsv_row) ELSE buffer
        total1 == total + 1
        flushed == IF Len(buffer1) >= threshold
                   THEN _flush_buffer(buffer1, f)
                   ELSE [buffer |-> buffer1, file |-> f, ret |-> 0]
    IN [buffer |-> flushed.buffer, total |-> total1, file |-> flushed.file,
        row |-> tsv_row, accepted |-> accepted, ret |-> total1,
        meta_data |-> MetaDataArgAfter(a.meta_data, a.license_url)]

\* Variant: the threshold test written with > instead of >=.
add_item_FlushAboveThreshold(a, buffer, total, f, provider, threshold) ==
    LET image == _get_image(a, provider)
        tsv_row == _create_tsv_row(image, _IMAGE_TSV_COLUMNS)
        accepted == tsv_row # NoneStr /\ Len(tsv_row) > 0
        buffer1 == IF accepted THEN Append(buffer, tsv_row) ELSE buffer
        total1 == IF accepted THEN total + 1 ELSE total
        flushed == IF Len(buffer1) > threshold
                   THEN _flush_buffer(buffer1, f)
                   ELSE [buffer |-> buffer1, file |-> f, ret |-> 0]
    IN [buffer |-> flushed.buffer, total |-> total1, file |-> flushed.file,
        row |-> tsv_row, accepted |-> accepted, ret |-> total1,
        meta_data |-> MetaDataArgAfter(a.meta_data, a.license_url)]

\* Variant: a rejected record flushes the buffer.
add_item_FlushesOnRejection(a, buffer, total, f, provider, threshold) ==
    LET image == _get_image(a, provider)
        tsv_row == _create_tsv_row(image, _IMAGE_TSV_COLUMNS)
        accepted == tsv_row # NoneStr /\ Len(tsv_row) > 0
        buffer1 == IF accepted THEN Append(buffer, tsv_row) ELSE buffer
        total1 == IF accepted THEN total + 1 ELSE total
        flushed == IF Len(buffer1) >= threshold \/ ~accepted
                   THEN _flush_buffer(buffer1, f)
                   ELSE [buffer |-> buffer1, file |-> f, ret |-> 0]
    IN [buffer |-> flushed.buffer, total |-> total1, file |-> flushed.file,
        row |-> tsv_row, accepted |-> accepted, ret |-> total1,
        meta_data |-> MetaDataArgAfter(a.meta_data, a.license_url)]

\* ImageStore.add_item: the buffer, the count and the file afterwards, the
\* row made of the record, the value returned, and the caller's meta_data
\* object as the call leaves it.
add_item(a, buffer, total, f, provider, threshold) ==
    LET image == _get_image(a, provider)
        tsv_row == _create_tsv_row(image, _IMAGE_TSV_COLUMNS)
        accepted == tsv_row # NoneStr /\ Len(tsv_row) > 0
        buffer1 == IF accepted THEN Append(buffer, tsv_row) ELSE buffer
        total1 == IF accepted THEN total + 1 ELSE total
        flushed == IF Len(buffer1) >= threshold
                   THEN _flush_buffer(buffer1, f)
                   ELSE [buffer |-> buffer1, file |-> f, ret |-> 0]
    IN [buffer |-> flushed.buffer, total |-> total1, file |-> flushed.file,
        row |-> tsv_row, accepted |-> accepted, ret |-> total1,
        meta_data |-> MetaDataArgAfter(a.meta_data, a.license_url)]

\* ImageStore.add_item when its flush raises at the named statement: the
\* possible outcomes (none when the call does not flush).  The row has been
\* appended and counted before the flush; nothing is returned.
add_item_raising(a, buffer, total, f, provider, threshold, stage) ==
    LET image == _get_image(a, provider)
        tsv_row == _create_tsv_row(image, _IMAGE_TSV_COLUMNS)
        accepted == tsv_row # NoneStr /\ Len(tsv_row) > 0
        buffer1 == IF accepted THEN Append(buffer, tsv_row) ELSE buffer
        total1 == IF accepted THEN total + 1 ELSE total
    IN IF Len(buffer1) >= threshold
       THEN {[buffer |-> flushed.buffer, total |-> total1, file |-> flushed.file,
              row |-> tsv_row, accepted |-> accepted,
              meta_data |-> MetaDataArgAfter(a.meta_data, a.license_url)] :
                flushed \in _flush_buffer_raising(buffer1, f, stage)}
       ELSE {}

\* ImageStore.commit when its flush raises at the named statement: the
\* upload is not reached and nothing is returned.
commit_raising(buffer, f, stage) == _flush_buffer_raising(buffer, f, stage)

\* Variant: the upload made before the flush.
commit_UploadBeforeFlush(buffer, total, f, s3_object, uploads) ==
    LET uploads1 == _upload_output_to_s3(s3_object, f, buffer, uploads)
        flushed == _flush_buffer(buffer, f)
    IN [buffer |-> flushed.buffer, file |-> flushed.file,
        uploads |-> uploads1, ret |-> total]

\* ImageStore.commit: flush, then upload, then return the count.
commit(buffer, total, f, s3_object, uploads) ==
    LET flushed == _flush_buffer(buffer, f)
        uploads1 == _upload_output_to_s3(s3_object, flushed.file,
                                         flushed.buffer, uploads)
    IN [buffer |-> flushed.buffer, file |-> flushed.file,
        uploads |-> uploads1, ret |-> total]

(***************************************************************************)
(* The state machine.                                                      *)
(***************************************************************************)
NoCall == [op |-> "none", item |-> 0, ret |-> 0, meta_data |-> PyNone,
           raised |-> "no"]

Init ==
    /\ session = "new"
    /\ _image_buffer = <<>>
    /\ _total_images = 0
    /\ _PROVIDER = PyNone
    /\ _BUFFER_LENGTH = 100
    /\ _S3_OBJECT = PyNone
    /\ output_file \in InitialFiles
    /\ initial_file = output_file
    /\ s3_uploads = <<>>
    /\ last_call = NoCall
    /\ accepted_rows = <<>>
    /\ io_failures = 0

\* ImageStore.__init__, its AWS arguments and the environment drawn from the
\* given sets.
ConstructWith(providers, buckets, access_keys, secret_keys, envs) ==
    /\ session = "new"
    /\ \E p \in providers, buffer_length \in Thresholds,
          aws_s3_bucket \in buckets, aws_access_key \in access_keys,
          aws_secret_key \in secret_keys, env \in envs :
          LET s3 == _initialize_s3_object(aws_s3_bucket, aws_access_key,
                                          aws_secret_key, env, Providers[p])
          IN /\ _PROVIDER' = Providers[p]
             /\ _BUFFER_LENGTH' = buffer_length
             /\ _S3_OBJECT' = s3.object
             /\ session' = IF s3.raised THEN "raised" ELSE "ready"
             /\ last_call' = [op |-> "__init__", item |-> 0, ret |-> 0,
                              meta_data |-> PyNone,
                              raised |-> IF s3.raised THEN "logger.info" ELSE "no",
                              aws_s3_bucket |-> aws_s3_bucket,
                              aws_access_key |-> aws_access_key,
                              aws_secret_key |-> aws_secret_key, env |-> env]
    /\ UNCHANGED <<_image_buffer, _total_images, output_file, s3_uploads,
                   initial_file, accepted_rows, io_failures>>

\* A session configured through the environment alone, or not at all.
Construct == ConstructWith({1}, {PyNone}, {PyNone}, {PyNone}, {EnvUnset, EnvSet})

\* ImageStore.add_item, the record drawn from the first n of AllItems, on a
\* session that has accepted fewer than max records.
AddItemFrom(n, max) ==
    /\ session = "ready"
    /\ _total_images < max
    /\ \E i \in 1..n :
          \E r \in {add_item(AllItems[i], _image_buffer, _total_images,
                            output_file, _PROVIDER, _BUFFER_LENGTH)} :
             /\ _image_buffer' = r.buffer
             /\ _total_images' = r.total
             /\ output_file' = r.file
             /\ accepted_rows' = IF r.accepted THEN Append(accepted_rows, r.row)
                                 ELSE accepted_rows
             /\ last_call' = [op |-> "add_item", item |-> i, ret |-> r.ret,
                              meta_data |-> r.meta_data, raised |-> "no"]
    /\ UNCHANGED <<session, _PROVIDER, _BUFFER_LENGTH, _S3_OBJECT, s3_uploads,
                   initial_file, io_failures>>

AddItem == AddItemFrom(Len(Items), MaxImages)

Commit ==
    /\ session = "ready"
    /\ Len(s3_uploads) < MaxCommits
    /\ \E r \in {commit(_image_buffer, _total_images, output_file, _S3_OBJECT,
                       s3_uploads)} :
          /\ _image_buffer' = r.buffer
          /\ output_file' = r.file
          /\ s3_uploads' = r.uploads
          /\ last_call' = [op |-> "commit", item |-> 0, ret |-> r.ret,
                           meta_data |-> PyNone, raised |-> "no"]
    /\ UNCHANGED <<session, _total_images, _PROVIDER, _BUFFER_LENGTH, _S3_OBJECT,
                   initial_file, accepted_rows, io_failures>>

Next == Construct \/ AddItem \/ Commit

\* add_item whose flush raises.
AddItemFlushRaises ==
    /\ session = "ready"
    /\ _total_images < MaxIOImages
    /\ io_failures < MaxIOFailures
    /\ \E i \in 1..Len(IOItems), stage \in FlushStages :
          \E r \in add_item_raising(AllItems[i], _image_buffer, _total_images,
                                    output_file, _PROVIDER, _BUFFER_LENGTH, stage) :
             /\ _image_buffer' = r.buffer
             /\ _total_images' = r.total
             /\ output_file' = r.file
             /\ accepted_rows' = IF r.accepted THEN Append(accepted_rows, r.row)
                                 ELSE accepted_rows
             /\ last_call' = [op |-> "add_item", item |-> i, ret |-> 0,
                              meta_data |-> r.meta_data, raised |-> stage]
    /\ io_failures' = io_failures + 1
    /\ UNCHANGED <<session, _PROVIDER, _BUFFER_LENGTH, _S3_OBJECT, s3_uploads,
                   initial_file>>

\* commit whose flush raises.
CommitFlushRaises ==
    /\ session = "ready"
    /\ io_failures < MaxIOFailures
    /\ \E stage \in FlushStages :
          \E r \in commit_raising(_image_buffer, output_file, stage) :
             /\ _image_buffer' = r.buffer
             /\ output_file' = r.file
             /\ last_call' = [op |-> "commit", item |-> 0, ret |-> 0,
                              meta_data |-> PyNone, raised |-> stage]
    /\ io_failures' = io_failures + 1
    /\ UNCHANGED <<session, _total_images, _PROVIDER, _BUFFER_LENGTH, _S3_OBJECT,
                   s3_uploads, initial_file, accepted_rows>>

\* Sessions in which a flush can raise; their records are those of IOItems.
AddItemIO == AddItemFrom(Len(IOItems), MaxIOImages)

NextIOFail ==
    Construct \/ AddItemIO \/ Commit \/ AddItemFlushRaises \/ CommitFlushRaises

SpecIOFail == Init /\ [][NextIOFail]_vars

Spec == Init /\ [][Next]_vars

\* Sessions of either provider setting that are offered every record of
\* AllItems and accept at most MaxRecordImages of them.
ConstructRecords ==
    ConstructWith(1..Len(Providers), {PyNone}, {PyNone}, {PyNone}, {EnvSet})

AddRecord == AddItemFrom(Len(AllItems), MaxRecordImages)

NextRecords == ConstructRecords \/ AddRecord

SpecRecords == Init /\ [][NextRecords]_vars

\* Sessions constructed with every combination of the AWS arguments and
\* the environment, and committed.
ConstructConfig ==
    ConstructWith({1}, BucketArgs, AccessArgs, SecretArgs, Environments)

NextConfig == ConstructConfig \/ Commit

SpecConfig == Init /\ [][NextConfig]_vars

(***************************************************************************)
(* Vocabulary of the properties.                                           *)
(***************************************************************************)
Last(seq) == seq[Len(seq)]

IsPrefix(s, t) == Len(s) <= Len(t) /\ SubSeq(t, 1, Len(s)) = s

\* The text t with its first n tokens removed.
DropFirst(t, n) == SubSeq(t, n + 1, Len(t))

\* Splitting a text on a separator token (Python's str.split(sep)).
RECURSIVE Split(_, _)
Split(sep, t) ==
    IF \A i \in 1..Len(t) : t[i] # sep THEN <<t>>
    ELSE LET k == CHOOSE i \in 1..Len(t) :
                     t[i] = sep /\ \A j \in 1..(i - 1) : t[j] # sep
         IN <<SubSeq(t, 1, k - 1)>> \o Split(sep, DropFirst(t, k))

\* The lines of a text whose every line ends with the line terminator.
Lines(t) == LET parts == Split(NL, t) IN SubSeq(parts, 1, Len(parts) - 1)

\* The step just taken was a call of the named public operation.
IsCall(op) == last_call'.op = op /\ vars' # vars

\* The record passed by the add_item call just made.
CallItem == AllItems[last_call'.item]

\* The prepared string of column i for the record a, as the schema gives it.
Prepared(a, i) ==
    prepare_string(_IMAGE_TSV_COLUMNS[i], _get_image(a, _PROVIDER)[i])

\* Every required column of the canonical record serializes to a non-null
\* value.
RequiredPresentIn(image) ==
    \A i \in 1..Len(_IMAGE_TSV_COLUMNS) :
        _IMAGE_TSV_COLUMNS[i].REQUIRED =>
            prepare_string(_IMAGE_TSV_COLUMNS[i], image[i]) # NoneStr

\* The same of the record a passed to add_item.
RequiredAllPresent(a) == RequiredPresentIn(_get_image(a, _PROVIDER))

\* The add_item call just made put a row in the buffer or the file.
RowEmitted == accepted_rows' # accepted_rows

(***************************************************************************)
(* C1: every add_item call whose record is accepted raises the             *)
(* accepted-count by exactly 1, every call whose record is rejected        *)
(* leaves it unchanged, and in both cases the call returns the running     *)
(* accepted-count.                                                         *)
(***************************************************************************)
C1_AddItemCountsAccepted ==
    [][IsCall("add_item") =>
         /\ RequiredAllPresent(CallItem) => _total_images' = _total_images + 1
         /\ ~RequiredAllPresent(CallItem) => _total_images' = _total_images
         /\ last_call'.ret = _total_images']_vars

\* A rejected record after two accepted ones: the call returns 2.
C1_Witness ==
    /\ last_call.op = "add_item"
    /\ ~RequiredAllPresent(Items[last_call.item])
    /\ _total_images = 2
    /\ last_call.ret = 2

C4_AtMostOneUploadPerSession == Len(s3_uploads) <= 1

\* C4 as the code has it: every commit call uploads at most once and no
\* other call uploads, so a session that commits once uploads at most once;
\* each further commit uploads the file again.
C4_AtMostOneUploadPerCommit ==
    [][/\ Len(s3_uploads') <= Len(s3_uploads) + 1
       /\ s3_uploads' # s3_uploads => IsCall("commit")]_vars

\* One commit, one upload, and records added after it.
C4_Witness ==
    /\ Len(s3_uploads) = 1
    /\ last_call.op = "add_item"
    /\ _total_images > 0

(***************************************************************************)
(* C5: with the remote storage configuration missing (bucket, access key   *)
(* or secret key resolved from neither the arguments nor the               *)
(* environment), publishing is disabled and the session still works:       *)
(* construction completes, and add_item and commit go on without           *)
(* uploading.                                                              *)
(***************************************************************************)
C5_SessionWorksWithoutRemoteConfig ==
    (session # "new" /\ IsNone(_S3_OBJECT)) => session = "ready"

(***************************************************************************)
(* C6: commit on a session with zero accepted records produces no output   *)
(* file and performs no upload.                                            *)
(***************************************************************************)
C6_EmptyCommitNoFileNoUpload ==
    (last_call.op = "commit" /\ _total_images = 0) =>
        /\ output_file = initial_file
        /\ s3_uploads = <<>>

\* C6 as the code has it: on a session whose output file did not exist at
\* creation, commit with zero accepted records produces no output file and
\* performs no upload.
C6_EmptyCommitNoFileNoUploadFreshPath ==
    (last_call.op = "commit" /\ _total_images = 0 /\ ~initial_file.exists) =>
        /\ ~output_file.exists
        /\ s3_uploads = <<>>

\* A commit with nothing accepted, on a path that held no file.
C6_Witness ==
    /\ last_call.op = "commit"
    /\ _total_images = 0
    /\ ~initial_file.exists
    /\ session = "ready"

(***************************************************************************)
(* C7: a row is emitted if and only if every required column resolves to   *)
(* a non-null serialized value, whatever the non-required columns hold;    *)
(* the row emitted is the one _create_tsv_row returns.                     *)
(***************************************************************************)
C7_RowIffRequiredPresent ==
    [][IsCall("add_item") =>
         /\ RowEmitted <=> RequiredAllPresent(CallItem)
         /\ RowEmitted =>
               /\ accepted_rows' = Append(accepted_rows, Last(accepted_rows'))
               /\ Last(accepted_rows') =
                     _create_tsv_row(_get_image(CallItem, _PROVIDER),
                                     _IMAGE_TSV_COLUMNS)
               /\ Last(accepted_rows') # NoneStr]_vars

\* Both cases met: a record accepted although an optional column of it is
\* unusable (a thumbnail that is no URL), then a record rejected.
C7_Witness ==
    /\ last_call.op = "add_item"
    /\ ~RequiredAllPresent(Items[last_call.item])
    /\ Len(accepted_rows) = 1
    /\ \E i \in 1..Len(Items) :
          /\ RequiredAllPresent(Items[i])
          /\ Prepared(Items[i], ColIndex("thumbnail_url")) = NoneStr
          /\ ~IsNone(Items[i].thumbnail_url)
          /\ accepted_rows[1] =
                _create_tsv_row(_get_image(Items[i], _PROVIDER), _IMAGE_TSV_COLUMNS)

(***************************************************************************)
(* C8: a record with an empty or missing image_url is never present in     *)
(* the output file or in the buffer, whatever its other fields and         *)
(* whatever add_item and commit calls follow.                              *)
(***************************************************************************)
\* The rows this session has written to the file, and those in the buffer.
SessionRows ==
    Lines(DropFirst(output_file.data, Len(initial_file.data))) \o
    [i \in 1..Len(_image_buffer) |->
        SubSeq(_image_buffer[i], 1, Len(_image_buffer[i]) - 1)]

ImageUrlMissing(a) == IsNone(a.image_url) \/ a.image_url.val = <<>>

C8_NoRowWithoutImageUrl ==
    /\ [](\A k \in 1..Len(SessionRows) :
             LET fields == Split(TAB, SessionRows[k])
             IN /\ Len(fields) = Len(_IMAGE_TSV_COLUMNS)
                /\ fields[ColIndex("image_url")] \notin {<<NullMarker>>, <<>>})
    /\ [][(IsCall("add_item") /\ ImageUrlMissing(CallItem)) =>
            /\ _image_buffer' = _image_buffer
            /\ output_file' = output_file]_vars

\* Rows in the file and in the buffer, and the last record offered had
\* every field but the image URL, which was empty.
C8_Witness ==
    /\ last_call.op = "add_item"
    /\ ImageUrlMissing(Items[last_call.item])
    /\ ~IsNone(Items[last_call.item].image_url)
    /\ ~IsNone(Items[last_call.item].foreign_landing_url)
    /\ Len(_image_buffer) > 0
    /\ output_file.exists
    /\ output_file # initial_file

RowsToFlush ==
    IF last_call'.op = "add_item" /\ RowEmitted
    THEN Append(_image_buffer, Last(accepted_rows'))
    ELSE _image_buffer

C10_FlushOnlyAppends ==
    [][output_file' # output_file =>
         /\ output_file'.exists
         /\ IsPrefix(output_file.data, output_file'.data)
         /\ DropFirst(output_file'.data, Len(output_file.data)) = Concat(RowsToFlush)
         /\ Len(RowsToFlush) > 0
         /\ _image_buffer' = <<>>]_vars

\* A second flush, onto a file that held a row before the session began.
C10_Witness ==
    /\ initial_file.exists
    /\ Len(initial_file.data) > 0
    /\ _BUFFER_LENGTH = 1
    /\ _total_images = 2
    /\ Len(Lines(output_file.data)) = 3
    /\ _image_buffer = <<>>

(***************************************************************************)
(* C11: for a record accepted with only the required fields supplied and   *)
(* no optional field set, splitting the serialized row on tab yields the   *)
(* marker \N in every optional-field position: foreign_identifier,         *)
(* thumbnail_url, width, height, filesize, creator, creator_url, title,    *)
(* meta_data, tags, watermarked, provider, source.                         *)
(***************************************************************************)
\* The optional arguments of add_item whose default is None.
OptionalArgs ==
    {"thumbnail_url", "foreign_identifier", "width", "height", "creator",
     "creator_url", "title", "meta_data", "raw_tags", "source"}

\* The caller set no optional argument of add_item.
NoOptionalSet(a) ==
    /\ \A f \in OptionalArgs : IsNone(a[f])
    /\ a.watermarked.type = "str"
    /\ a.watermarked.val = DefaultArgs.watermarked.val

\* The fields of a row: the row without its line terminator, split on tab.
Fields(row) == Split(TAB, SubSeq(row, 1, Len(row) - 1))

\* The fields of the row the add_item call just made emitted.
EmittedFields == Fields(Last(accepted_rows'))

C11_MarkerInEveryOptionalPosition ==
    [][(IsCall("add_item") /\ RowEmitted /\ NoOptionalSet(CallItem)) =>
         \A c \in {"foreign_identifier", "thumbnail_url", "width", "height",
                   "filesize", "creator", "creator_url", "title", "meta_data",
                   "tags", "watermarked", "provider", "source"} :
             EmittedFields[ColIndex(c)] = <<NullMarker>>]_vars

\* C11 as the code has it: the marker \N stands in the positions of
\* foreign_identifier, thumbnail_url, width, height, filesize, creator,
\* creator_url, title and tags; meta_data holds the map with the call's
\* license URL, watermarked holds the default f, and provider and source
\* hold the session's provider, the marker only when that is None.
C11_MarkerInUnsetOptionalPositions ==
    [][(IsCall("add_item") /\ RowEmitted /\ NoOptionalSet(CallItem)) =>
         /\ Len(EmittedFields) = Len(_IMAGE_TSV_COLUMNS)
         /\ \A c \in {"foreign_identifier", "thumbnail_url", "width", "height",
                      "filesize", "creator", "creator_url", "title", "tags"} :
                EmittedFields[ColIndex(c)] = <<NullMarker>>
         /\ EmittedFields[ColIndex("meta_data")] =
               JsonTokens(PyDict(<< <<LICENSE_URL_KEY, CallItem.license_url>> >>))
         /\ EmittedFields[ColIndex("watermarked")] = <<"f">>
         /\ \A c \in {"provider", "source"} :
                EmittedFields[ColIndex(c)] =
                   IF IsNone(_PROVIDER) THEN <<NullMarker>> ELSE _PROVIDER.val]_vars

\* A record of required fields only, its license given as a pair, accepted
\* by a session of provider flickr: tags hold the marker, meta_data does not.
C11_Witness ==
    /\ last_call.op = "add_item"
    /\ last_call.item = Len(Items) + 1
    /\ NoOptionalSet(AllItems[last_call.item])
    /\ ~IsNone(_PROVIDER)
    /\ Len(accepted_rows) = 1
    /\ Fields(accepted_rows[1])[ColIndex("tags")] = <<NullMarker>>
    /\ Fields(accepted_rows[1])[ColIndex("meta_data")] # <<NullMarker>>
    /\ Fields(accepted_rows[1])[ColIndex("provider")] = _PROVIDER.val

(***************************************************************************)
(* C12: an upload is performed only inside commit, and only when a         *)
(* destination is configured and the local output file exists at that      *)
(* moment; add_item, the flush it triggers included, never uploads, and    *)
(* the upload step is a no-op when the destination is disabled or the      *)
(* file is absent.                                                         *)
(***************************************************************************)
C12_UploadOnlyInCommitWithFile ==
    /\ [](\A s3_object \in {PyNone, _S3_OBJECT}, f \in {NoFile, output_file} :
             (IsNone(s3_object) \/ ~PathExists(f)) =>
                 _upload_output_to_s3(s3_object, f, _image_buffer, s3_uploads)
                    = s3_uploads)
    /\ [][/\ s3_uploads' # s3_uploads =>
               /\ IsCall("commit")
               /\ ~IsNone(_S3_OBJECT)
               /\ output_file'.exists
               /\ Last(s3_uploads').object = _S3_OBJECT
               /\ Last(s3_uploads').body = output_file'.data
          /\ IsCall("add_item") => s3_uploads' = s3_uploads
          /\ (IsCall("commit") /\ (IsNone(_S3_OBJECT) \/ ~output_file'.exists)) =>
               s3_uploads' = s3_uploads]_vars

\* A commit with a destination configured and no output file: nothing was
\* uploaded.
C12_Witness ==
    /\ last_call.op = "commit"
    /\ ~IsNone(_S3_OBJECT)
    /\ ~output_file.exists
    /\ s3_uploads = <<>>

(***************************************************************************)
(* C13: each of the three remote-storage settings (bucket, access key,     *)
(* secret key) is resolved independently as the explicitly supplied value  *)
(* if one is given, otherwise the environment's value; publishing is       *)
(* enabled exactly when all three resolve to a value.  An explicitly       *)
(* supplied secret key is the one used, and a secret key absent from the   *)
(* arguments falls back to the environment, whatever was supplied for the  *)
(* access key.                                                             *)
(***************************************************************************)
\* The explicitly supplied value if one is given, otherwise the environment's.
Resolved(arg, env_value) == IF IsNone(arg) THEN env_value ELSE arg

C13_SettingsResolvedIndependently ==
    last_call.op = "__init__" =>
        LET bucket == Resolved(last_call.aws_s3_bucket,
                               last_call.env.CCCATALOG_STORAGE_BUCKET)
            access == Resolved(last_call.aws_access_key,
                               last_call.env.AWS_ACCESS_KEY)
            secret == Resolved(last_call.aws_secret_key,
                               last_call.env.AWS_SECRET_KEY)
        IN /\ ~IsNone(_S3_OBJECT) <=>
                 (~IsNone(bucket) /\ ~IsNone(access) /\ ~IsNone(secret))
           /\ ~IsNone(_S3_OBJECT) =>
                 /\ _S3_OBJECT.val.bucket_name = bucket
                 /\ _S3_OBJECT.val.aws_access_key_id = access
                 /\ _S3_OBJECT.val.aws_secret_access_key = secret

(***************************************************************************)
(* C14: when raw tags are a sequence, the enriched tags have the same      *)
(* length and order, each tag that is a map with non-empty name and        *)
(* non-empty provider passed through unchanged and every other tag         *)
(* wrapped as {name: the tag value, provider: the session provider}; when  *)
(* raw tags are not a sequence the tags resolve to null.  ["cat", {name:   *)
(* dog, provider: other}] with provider flickr yields [{name: cat,         *)
(* provider: flickr}, {name: dog, provider: other}].                       *)
(***************************************************************************)
\* A map with a non-empty name and a non-empty provider.
NamedAndProvided(tag) ==
    /\ tag.type = "dict"
    /\ \A key \in {<<"name">>, <<"provider">>} :
          /\ DictHas(tag, key)
          /\ DictGet(tag, key).type = "str"
          /\ DictGet(tag, key).val # <<>>

Wrapped(tag, provider) ==
    PyDict(<< <<(<<"name">>), tag>>, <<(<<"provider">>), provider>> >>)

\* The tags of the canonical record of the add_item call just made.
CallTags == _get_image(CallItem, _PROVIDER)[ColIndex("tags")]

C14_TagsWrappedOrPassedThrough ==
    [][(IsCall("add_item") /\ RowEmitted) =>
         LET raw_tags == CallItem.raw_tags
         IN IF raw_tags.type = "list"
            THEN LET expected ==
                       PyList([i \in 1..Len(raw_tags.val) |->
                                 IF NamedAndProvided(raw_tags.val[i])
                                 THEN raw_tags.val[i]
                                 ELSE Wrapped(raw_tags.val[i], _PROVIDER)])
                 IN /\ CallTags.type = "list"
                    /\ Len(CallTags.val) = Len(raw_tags.val)
                    /\ \A i \in 1..Len(raw_tags.val) :
                          JsonTokens(CallTags.val[i]) = JsonTokens(expected.val[i])
                    /\ EmittedFields[ColIndex("tags")] =
                          prepare_string(_IMAGE_TSV_COLUMNS[ColIndex("tags")],
                                         expected)
            ELSE /\ IsNone(CallTags)
                 /\ EmittedFields[ColIndex("tags")] = <<NullMarker>>]_vars

\* The claim's example: the record with tags ["cat", {name: dog, provider:
\* other}] accepted by a session of provider flickr.
C14_Witness ==
    /\ last_call.op = "add_item"
    /\ last_call.item = 2
    /\ _PROVIDER = PyStr(<<"flickr">>)
    /\ Len(accepted_rows) = 1
    /\ Fields(accepted_rows[1])[ColIndex("tags")] =
          JsonTokens(PyList(<< Wrapped(PyStr(<<"cat">>), PyStr(<<"flickr">>)),
                               TagDog >>))

(***************************************************************************)
(* C15: if the supplied metadata is a map, the enriched metadata contains  *)
(* every supplied key other than the license-URL key with its supplied     *)
(* value, and the license-URL key is always present and set to the         *)
(* license URL argument of the call, overriding any value stored under it  *)
(* before; if the supplied metadata is not a map, the result is a map      *)
(* containing only the license-URL key.                                    *)
(***************************************************************************)
Keys(d) == {d.val[i][1] : i \in 1..Len(d.val)}

\* The meta_data of the canonical record of the add_item call just made.
CallMetaData == _get_image(CallItem, _PROVIDER)[ColIndex("meta_data")]

C15_MetaDataCarriesLicenseURL ==
    [][(IsCall("add_item") /\ RowEmitted) =>
         LET supplied == CallItem.meta_data
         IN /\ CallMetaData.type = "dict"
            /\ Cardinality(Keys(CallMetaData)) = Len(CallMetaData.val)
            /\ LICENSE_URL_KEY \in Keys(CallMetaData)
            /\ JsonTokens(DictGet(CallMetaData, LICENSE_URL_KEY)) =
                  JsonTokens(CallItem.license_url)
            /\ IF supplied.type = "dict"
               THEN /\ Keys(CallMetaData) = Keys(supplied) \cup {LICENSE_URL_KEY}
                    /\ \A key \in Keys(supplied) \ {LICENSE_URL_KEY} :
                          JsonTokens(DictGet(CallMetaData, key)) =
                             JsonTokens(DictGet(supplied, key))
               ELSE Keys(CallMetaData) = {LICENSE_URL_KEY}
            /\ EmittedFields[ColIndex("meta_data")] = JsonTokens(CallMetaData)]_vars

\* A record whose metadata held a description, an older license URL and a
\* date, accepted with its license given by URL: the row holds that URL
\* in place of the older one, between the other two keys.
C15_Witness ==
    /\ last_call.op = "add_item"
    /\ last_call.item = Len(Items) + 7
    /\ Len(accepted_rows) = 1
    /\ Fields(accepted_rows[1])[ColIndex("meta_data")] =
          JsonTokens(PyDict(<< <<(<<"description">>), PyStr(<<"d">>)>>,
                               <<LICENSE_URL_KEY, PyStr(KnownLicenseURL)>>,
                               <<(<<"pub_date">>), PyInt(2019)>> >>))

(***************************************************************************)
(* C16: every emitted row has exactly one field per schema column (17),    *)
(* in the fixed schema order, the value at position i being the            *)
(* serialization of the canonical record's value for column i; a null      *)
(* serialization is written as the marker \N, fields are joined by a tab   *)
(* and the row ends with one line terminator.                              *)
(***************************************************************************)
SchemaOrder ==
    << "foreign_identifier", "foreign_landing_url", "image_url",
       "thumbnail_url", "width", "height", "filesize", "license_",
       "license_version", "creator", "creator_url", "title", "meta_data",
       "tags", "watermarked", "provider", "source" >>

\* The canonical record's value for the named column, for the record a
\* passed to add_item.
CanonicalValue(a, name) ==
    CASE name = "license_" ->
            choose_license_and_version(a.license_url, a.license_,
                                       a.license_version)[1]
      [] name = "license_version" ->
            choose_license_and_version(a.license_url, a.license_,
                                       a.license_version)[2]
      [] name = "filesize" -> PyNone
      [] name = "meta_data" -> _enrich_meta_data(a.meta_data, a.license_url)
      [] name = "tags" -> _enrich_tags(a.raw_tags, _PROVIDER)
      [] name = "provider" -> _PROVIDER
      [] name = "source" -> get_source(a.source, _PROVIDER)
      [] OTHER -> a[name]

Count(token, text) == Cardinality({k \in 1..Len(text) : text[k] = token})

C16_RowHasOneFieldPerColumn ==
    [][(IsCall("add_item") /\ RowEmitted) =>
         LET row == Last(accepted_rows')
             expected ==
                [i \in 1..17 |->
                   LET column == _IMAGE_TSV_COLUMNS[i]
                       prepared ==
                          prepare_string(column,
                                         CanonicalValue(CallItem, SchemaOrder[i]))
                   IN IF prepared = NoneStr THEN <<NullMarker>> ELSE prepared]
         IN /\ Len(_IMAGE_TSV_COLUMNS) = 17
            /\ \A i \in 1..17 : _IMAGE_TSV_COLUMNS[i].NAME = SchemaOrder[i]
            /\ Last(row) = NL
            /\ Count(NL, row) = 1
            /\ Count(TAB, row) = 16
            /\ Len(EmittedFields) = 17
            /\ \A i \in 1..17 : EmittedFields[i] = expected[i]
            /\ row = Join(TAB, expected) \o <<NL>>]_vars

\* The record with every field given, some of them with tabs and line
\* breaks inside and some unusable, accepted: its row has the marker in the
\* filesize position and the license ahead of the creator.
C16_Witness ==
    /\ last_call.op = "add_item"
    /\ last_call.item = 2
    /\ Len(accepted_rows) = 1
    /\ Len(Fields(accepted_rows[1])) = 17
    /\ Fields(accepted_rows[1])[7] = <<NullMarker>>
    /\ Fields(accepted_rows[1])[8] = LicenseCC0[1]
    /\ Fields(accepted_rows[1])[9] = LicenseCC0[2]
    /\ Fields(accepted_rows[1])[5] = <<"640">>

(***************************************************************************)
(* C17: metadata enrichment is a pure transformation: add_item leaves the  *)
(* caller-owned metadata map passed to it unchanged, with the same keys    *)
(* and values after the call as before, and builds a new map for the       *)
(* record.                                                                 *)
(***************************************************************************)
C17_CallerMetaDataUnchanged ==
    last_call.op = "add_item" =>
        LET before == AllItems[last_call.item].meta_data
            after == last_call.meta_data
        IN /\ after.type = before.type
           /\ JsonTokens(after) = JsonTokens(before)

(***************************************************************************)
(* C18: after any sequence of add_item and commit calls on a session       *)
(* whose output file did not exist at creation, the lines of the output    *)
(* file followed by the rows in the buffer are exactly the accepted rows   *)
(* in the order they were accepted, none lost, duplicated or reordered;    *)
(* hence accepted-count = file lines + buffer length at all times, and     *)
(* after commit the file has exactly accepted-count lines.                 *)
(***************************************************************************)
\* A row without its line terminator.
Unterminated(row) == SubSeq(row, 1, Len(row) - 1)

FlushRaised == io_failures' # io_failures

\* What the step just taken added to the file.
Appended == DropFirst(output_file'.data, Len(output_file.data))

C20_FailedFlushKeepsBuffer ==
    [][FlushRaised =>
         /\ _image_buffer' = RowsToFlush
         /\ _total_images' = Len(accepted_rows')]_vars

\* C20 as the code has it: when open or writelines raises, the buffer is
\* kept, the row just accepted included, and a later flush writes the same
\* rows again, after whatever part of them the failed write left in the
\* file; when the error is raised as the file is closed, the buffer has
\* been emptied already and the rows not yet written are lost.  The
\* accepted-count is never rolled back and nothing is uploaded.
C20_BufferKeptUnlessCloseRaises ==
    [][/\ FlushRaised =>
            /\ Len(RowsToFlush) > 0
            /\ _total_images' = Len(accepted_rows')
            /\ _total_images' = _total_images + (IF RowEmitted THEN 1 ELSE 0)
            /\ s3_uploads' = s3_uploads
            /\ IsPrefix(output_file.data, output_file'.data)
            /\ IsPrefix(Appended, Concat(RowsToFlush))
            /\ last_call'.raised = "open" =>
                  /\ _image_buffer' = RowsToFlush
                  /\ output_file' = output_file
            /\ last_call'.raised = "writelines" =>
                  /\ _image_buffer' = RowsToFlush
                  /\ Appended # Concat(RowsToFlush)
            /\ last_call'.raised = "close" => _image_buffer' = <<>>
       /\ (IsCall("commit") /\ last_call'.raised = "no") =>
            /\ output_file'.data = output_file.data \o Concat(_image_buffer)
            /\ _image_buffer' = <<>>]_vars

\* A flush of one row that raised in writelines with the row torn, and a
\* commit after it that wrote the same row again, whole.
C20_Witness ==
    /\ last_call.op = "commit"
    /\ last_call.raised = "no"
    /\ io_failures = 1
    /\ _total_images = 1
    /\ _image_buffer = <<>>
    /\ output_file.data =
          initial_file.data \o SubSeq(accepted_rows[1], 1, 1) \o accepted_rows[1]


==========================================================================
